---- MODULE Spec2Model ----
(***************************************************************************)
(* Model of dreadfort/sinks/elasticsearch/sink.py: the elasticsearch data  *)
(* sink.  put_message publishes index requests on the durable queue        *)
(* "elasticsearch"; a pool of processes each runs flush_to_es, which feeds *)
(* the generator get_queue_stream into streaming_bulk and acknowledges the *)
(* messages whose documents the backend reports as indexed.                *)
(*                                                                         *)
(* A message is identified by its position in publish order (1, 2, ...).   *)
(* The broker holds every message in exactly one place: ready in the queue,*)
(* delivered and unacknowledged on the open connection of a worker,        *)
(* delivered and unacknowledged on an abandoned connection of a worker     *)
(* that is not yet closed, or removed by an acknowledgment.                *)
(***************************************************************************)
EXTENDS Naturals, Sequences, FiniteSets

\* number of processes start() creates (cpu_count())
NumWorkers == 2
\* number of processes followed: the ones start() creates beyond it are not
MaxProcs == 3
\* number of documents handed to put_message in one run
MaxMsgs == 3
\* chunk_size of streaming_bulk
BULK_SIZE == 2
\* number of times the task framework runs put_message again after a failure
MaxRetries == 1
\* number of requests the tenant API serves at the same time
NumClients == 2
\* number of tenant rows the database holds at most
MaxRows == 2

Workers == 1..MaxProcs
Msgs == 1..MaxMsgs

VARIABLES
    published,  \* number of messages published so far
    ready,      \* messages waiting in the queue
    unacked,    \* per worker: deliveries on its open connection, not acked
    stale,      \* per worker: deliveries on abandoned, still open connections
    acked,      \* messages removed from the queue by msg.ack()
    indexed,    \* messages the backend has reported as indexed
    pc,         \* per worker: position in flush_to_es
    ack_list,   \* per worker: the list ack_list of flush_to_es
    chunk,      \* per worker: payloads buffered by streaming_bulk
    resp,       \* per worker: results of the last bulk request
    pos,        \* per worker: number of results of resp already consumed
    exc,        \* per worker: exception being handled ("none" in the try body)
    declared,   \* the try block at import bound connection and es_queue
    calls,      \* number of calls of the task put_message so far
    task,       \* the call of put_message being run by the task framework
    uuids,      \* number of values uuid.uuid4() has returned
    actions,    \* the index requests published, in publish order
    tenants,    \* tenant API: the stored rows, each a primary key and a tenant_id
    lastId,     \* tenant API: the last primary key given to a row
    uniqueIndex,\* tenant API: the table rejects a second row with a tenant_id
    staleRaises,\* tenant API: deleting a row already deleted raises on commit
    req,        \* tenant API: per client, the request it is serving
    starting    \* start(): processes of process_list not yet started

localVars == <<pc, ack_list, chunk, resp, pos, exc>>
sinkVars == <<published, ready, unacked, stale, acked, indexed, localVars>>
pubVars == <<declared, calls, task, uuids, actions>>
tenantVars == <<tenants, lastId, uniqueIndex, staleRaises, req>>
apiVars == <<tenantVars>>
poolVars == <<starting>>
nonSinkVars == <<pubVars, apiVars, poolVars>>

vars == <<sinkVars, nonSinkVars>>

Range(s) == {s[i] : i \in 1..Len(s)}

\* the message a blocking get returns: the queue is first in, first out, and
\* a requeued message goes back to its original position
Oldest(S) == CHOOSE m \in S : \A n \in S : m <= n

PcStates == {"NOT_STARTED", "CONNECTING", "STREAMING", "SUBMITTING",
             "ACK_OR_SKIP", "DEAD"}
ExcKinds == {"none", "Empty", "broker", "backend"}

TypeOK ==
    /\ published \in 0..MaxMsgs
    /\ ready \subseteq Msgs
    /\ unacked \in [Workers -> SUBSET Msgs]
    /\ stale \in [Workers -> SUBSET Msgs]
    /\ acked \subseteq Msgs
    /\ indexed \subseteq Msgs
    /\ pc \in [Workers -> PcStates]
    /\ \A w \in Workers :
        /\ ack_list[w] \in Seq(Msgs)
        /\ chunk[w] \in Seq(Msgs)
        /\ pos[w] \in 0..Len(resp[w])
        /\ \A i \in 1..Len(resp[w]) :
              resp[w][i].msg \in Msgs /\ resp[w][i].ok \in BOOLEAN
    /\ exc \in [Workers -> ExcKinds]
    /\ starting \in 0..NumWorkers

\* the documents handed to put_message: a well formed one, one without the
\* keys message['dreadfort'][...], one the json serializer rejects
Kinds == {"ok", "no_metadata", "unserializable"}

PubTypeOK ==
    /\ declared \in BOOLEAN
    /\ calls \in 0..MaxMsgs
    /\ task.state \in {"idle", "queued", "done", "failed"}
    /\ task.kind \in Kinds
    /\ task.retries \in 0..MaxRetries
    /\ uuids \in 0..(MaxMsgs * (MaxRetries + 1))
    /\ Len(actions) = published

\* the publisher before any call, the import having bound its names or not
PubInit(ok) ==
    /\ declared = ok
    /\ calls = 0
    /\ task = [state |-> "idle", kind |-> "ok", retries |-> 0]
    /\ uuids = 0
    /\ actions = <<>>

SinkInit ==
    /\ published = 0
    /\ ready = {}
    /\ unacked = [w \in Workers |-> {}]
    /\ stale = [w \in Workers |-> {}]
    /\ acked = {}
    /\ indexed = {}
    /\ pc = [w \in Workers |-> "NOT_STARTED"]
    /\ ack_list = [w \in Workers |-> <<>>]
    /\ chunk = [w \in Workers |-> <<>>]
    /\ resp = [w \in Workers |-> <<>>]
    /\ pos = [w \in Workers |-> 0]
    /\ exc = [w \in Workers |-> "none"]
    /\ starting = 0

----------------------------------------------------------------------------
(* TenantResource.on_post and UserResource.on_delete of the tenant API      *)

Clients == 1..NumClients
TenantIds == {"acme", "initech"}

Idle == [op |-> "idle", tenant_id |-> "", phase |-> "idle", found |-> FALSE,
         row |-> 0, status |-> "none"]

TenantInit(unique, raises) ==
    /\ tenants = <<>>
    /\ lastId = 0
    /\ uniqueIndex = unique
    /\ staleRaises = raises
    /\ req = [c \in Clients |-> Idle]

\* find_tenant(self.db, tenant_id=tenant_id) finds a stored row
FindTenant(tenant_id) ==
    \E i \in 1..Len(tenants) : tenants[i].tenant_id = tenant_id

\* the primary key of the row find_tenant returns, 0 when there is none
FoundRow(tenant_id) ==
    IF FindTenant(tenant_id)
       THEN tenants[CHOOSE i \in 1..Len(tenants) :
                       /\ tenants[i].tenant_id = tenant_id
                       /\ \A k \in 1..(i - 1) :
                             tenants[k].tenant_id # tenant_id].id
       ELSE 0

\* the row with this primary key is still stored
Stored(row) == \E i \in 1..Len(tenants) : tenants[i].id = row

\* variant: the delete removes the first row that has the tenant_id now
DeletedRow_by_tenant_id(c) == FoundRow(req[c].tenant_id)

\* the row self.db.delete(tenant) removes: the one find_tenant returned
DeletedRow(c) == req[c].row

\* the rows left when the row with this primary key is deleted
WithoutRow(row) ==
    LET F[i \in 0..Len(tenants)] ==
            IF i = 0 THEN <<>>
            ELSE IF tenants[i].id = row THEN F[i - 1]
                 ELSE Append(F[i - 1], tenants[i])
    IN F[Len(tenants)]

InFlightPosts ==
    Cardinality({c \in Clients : req[c].op = "post" /\ req[c].phase = "found"})

\* on_post up to the result of find_tenant
post_find(c, tenant_id) ==
    /\ req[c].phase # "found"
    /\ lastId + InFlightPosts < MaxRows
    /\ req' = [req EXCEPT ![c] =
                 [op |-> "post", tenant_id |-> tenant_id, phase |-> "found",
                  found |-> FindTenant(tenant_id),
                  row |-> FoundRow(tenant_id), status |-> "none"]]
    /\ UNCHANGED <<tenants, lastId, uniqueIndex, staleRaises>>
    /\ UNCHANGED <<sinkVars, pubVars, poolVars>>

\* on_post after find_tenant: abort with 400, or add, commit and answer 201;
\* a commit the table rejects raises and the request ends with 500
post_finish(c) ==
    /\ req[c].op = "post"
    /\ req[c].phase = "found"
    /\ IF req[c].found
          THEN /\ req' = [req EXCEPT ![c].phase = "done", ![c].status = "400"]
               /\ UNCHANGED <<tenants, lastId>>
          ELSE IF uniqueIndex /\ FindTenant(req[c].tenant_id)
                  THEN /\ req' = [req EXCEPT ![c].phase = "done",
                                             ![c].status = "500"]
                       /\ UNCHANGED <<tenants, lastId>>
                  ELSE /\ req' = [req EXCEPT ![c].phase = "done",
                                             ![c].status = "201"]
                       /\ lastId' = lastId + 1
                       /\ tenants' = Append(tenants,
                                        [id |-> lastId + 1,
                                         tenant_id |-> req[c].tenant_id])
    /\ UNCHANGED <<uniqueIndex, staleRaises>>
    /\ UNCHANGED <<sinkVars, pubVars, poolVars>>

\* on_delete up to the result of find_tenant: 404 when there is no such row
delete_find(c, tenant_id) ==
    /\ req[c].phase # "found"
    /\ req' = [req EXCEPT ![c] =
                 IF FindTenant(tenant_id)
                    THEN [op |-> "delete", tenant_id |-> tenant_id,
                          phase |-> "found", found |-> TRUE,
                          row |-> FoundRow(tenant_id), status |-> "none"]
                    ELSE [op |-> "delete", tenant_id |-> tenant_id,
                          phase |-> "done", found |-> FALSE,
                          row |-> 0, status |-> "404"]]
    /\ UNCHANGED <<tenants, lastId, uniqueIndex, staleRaises>>
    /\ UNCHANGED <<sinkVars, pubVars, poolVars>>

\* on_delete after find_tenant: delete the row found, commit and answer 200;
\* when another request has deleted that row meanwhile nothing is removed,
\* and the commit raises or not as the database layer treats a stale delete
delete_finish(c) ==
    /\ req[c].op = "delete"
    /\ req[c].phase = "found"
    /\ IF Stored(DeletedRow(c))
          THEN /\ tenants' = WithoutRow(DeletedRow(c))
               /\ req' = [req EXCEPT ![c].phase = "done", ![c].status = "200"]
          ELSE /\ UNCHANGED tenants
               /\ req' = [req EXCEPT ![c].phase = "done",
                            ![c].status = IF staleRaises THEN "500"
                                                         ELSE "200"]
    /\ UNCHANGED <<lastId, uniqueIndex, staleRaises>>
    /\ UNCHANGED <<sinkVars, pubVars, poolVars>>

ApiInit == TenantInit(FALSE, FALSE)

----------------------------------------------------------------------------

Init == SinkInit /\ PubInit(TRUE) /\ ApiInit

\* variant: the id is computed once, when the module is imported
NewActionId_once(n) == 1

\* str(uuid.uuid4()): a value no earlier call returned
NewActionId(n) == n + 1

\* _queue_index_request up to the publish: the action built for a document
BuildAction(document) ==
    [_id |-> NewActionId(uuids), _source |-> document]

\* _queue_index_request with a publish that succeeds: the action becomes
\* the next message of the queue
queue_index_request(document) ==
    /\ uuids' = uuids + 1
    /\ actions' = Append(actions, BuildAction(document))
    /\ published' = published + 1
    /\ ready' = ready \cup {published + 1}
    /\ UNCHANGED <<unacked, stale, acked, indexed>>
    /\ UNCHANGED localVars

\* put_message: one message is enqueued per successful call
put_message ==
    /\ published < MaxMsgs
    /\ calls < MaxMsgs
    /\ declared
    /\ task.state # "queued"
    /\ calls' = calls + 1
    /\ queue_index_request("ok")
    /\ UNCHANGED <<declared, task>>
    /\ UNCHANGED <<apiVars, poolVars>>

\* put_message.delay(message): the task framework takes a call
delay(kind) ==
    /\ calls < MaxMsgs
    /\ task.state # "queued"
    /\ calls' = calls + 1
    /\ task' = [state |-> "queued", kind |-> kind, retries |-> 0]
    /\ UNCHANGED <<declared, uuids, actions>>
    /\ UNCHANGED sinkVars
    /\ UNCHANGED <<apiVars, poolVars>>

\* variant: es_queue and connection are bound before the try block
CanPublish_always(ok) == TRUE

\* producers[connection] and declare=[es_queue] name what the try block at
\* import binds; they are unbound (NameError) when that block failed
CanPublish(ok) == ok

\* put_message.retry(): the call is queued again, or the failure is raised
\* to the caller once the retries are used up
Retry(t) ==
    IF t.retries < MaxRetries
        THEN [t EXCEPT !.state = "queued", !.retries = @ + 1]
        ELSE [t EXCEPT !.state = "failed"]

\* message['dreadfort'][...] raises KeyError before _queue_index_request is
\* entered, so before uuid.uuid4() is called
FailsBeforeId(kind) == kind = "no_metadata"

\* a run of put_message in which no exception is raised
put_message_runs ==
    /\ task.state = "queued"
    /\ task.kind = "ok"
    /\ CanPublish(declared)
    /\ published < MaxMsgs
    /\ queue_index_request(task.kind)
    /\ task' = [task EXCEPT !.state = "done"]
    /\ UNCHANGED <<declared, calls>>
    /\ UNCHANGED <<apiVars, poolVars>>

\* variant: the publish reaches the broker before the exception is raised
put_message_fails_sent ==
    /\ task.state = "queued"
    /\ published < MaxMsgs
    /\ queue_index_request(task.kind)
    /\ task' = Retry(task)
    /\ UNCHANGED <<declared, calls>>
    /\ UNCHANGED <<apiVars, poolVars>>

\* a run of put_message in which an exception is raised (KeyError, NameError,
\* a serialization error, a broker failure): it is logged and retry() is
\* called
put_message_fails ==
    /\ task.state = "queued"
    /\ uuids' = IF FailsBeforeId(task.kind) THEN uuids ELSE uuids + 1
    /\ task' = Retry(task)
    /\ UNCHANGED <<declared, calls, actions>>
    /\ UNCHANGED sinkVars
    /\ UNCHANGED <<apiVars, poolVars>>

\* the processes created so far
Created == {w \in Workers : pc[w] # "NOT_STARTED"}

\* ElasticSearchStreamBulker.start up to the map: concurrency = cpu_count()
\* and a process_list of that many new processes
start ==
    /\ starting = 0
    /\ Cardinality(Created) < MaxProcs
    /\ starting' = NumWorkers
    /\ UNCHANGED sinkVars
    /\ UNCHANGED <<pubVars, apiVars>>

\* variant: the next process is started in the place of one that ended
StartsNext_respawn(w) ==
    /\ pc[w] \in {"NOT_STARTED", "DEAD"}
    /\ \A v \in Workers : v < w => pc[v] \notin {"NOT_STARTED", "DEAD"}

\* the process x.start() is called on next: the first one not yet started
StartsNext(w) ==
    /\ pc[w] = "NOT_STARTED"
    /\ \A v \in Workers : v < w => pc[v] # "NOT_STARTED"

\* one x.start() of the map over process_list: the process begins to run
\* flush_to_es while the others of the list are not started yet
ProcessStart(w) ==
    /\ starting > 0
    /\ StartsNext(w)
    /\ pc' = [pc EXCEPT ![w] = "CONNECTING"]
    /\ starting' = starting - 1
    /\ UNCHANGED <<published, ready, unacked, stale, acked, indexed,
                   ack_list, chunk, resp, pos, exc>>
    /\ UNCHANGED <<pubVars, apiVars>>

\* variant: ack_list is created once, before the while loop
Connect_keep(w) ==
    /\ pc[w] = "CONNECTING"
    /\ pc' = [pc EXCEPT ![w] = "STREAMING"]
    /\ chunk' = [chunk EXCEPT ![w] = <<>>]
    /\ resp' = [resp EXCEPT ![w] = <<>>]
    /\ pos' = [pos EXCEPT ![w] = 0]
    /\ exc' = [exc EXCEPT ![w] = "none"]
    /\ UNCHANGED <<published, ready, unacked, stale, acked, indexed, ack_list>>
    /\ UNCHANGED nonSinkVars

\* top of the while loop of flush_to_es: a new ack_list, a new generator and
\* a new streaming_bulk over it
Connect(w) ==
    /\ pc[w] = "CONNECTING"
    /\ pc' = [pc EXCEPT ![w] = "STREAMING"]
    /\ ack_list' = [ack_list EXCEPT ![w] = <<>>]
    /\ chunk' = [chunk EXCEPT ![w] = <<>>]
    /\ resp' = [resp EXCEPT ![w] = <<>>]
    /\ pos' = [pos EXCEPT ![w] = 0]
    /\ exc' = [exc EXCEPT ![w] = "none"]
    /\ UNCHANGED <<published, ready, unacked, stale, acked, indexed>>
    /\ UNCHANGED nonSinkVars

\* variant: ack_list.insert(0, msg)
AppendPending_front(l, msg) == <<msg>> \o l

\* ack_list.append(msg)
AppendPending(l, msg) == Append(l, msg)

\* islice(actions, chunk_size) is exhausted: the chunk goes to client.bulk
ChunkFull(c) == Len(c) = BULK_SIZE

\* variant: ack_list is one list shared by all processes
Pull_shared(w) ==
    /\ pc[w] = "STREAMING"
    /\ ready # {}
    /\ LET msg == Oldest(ready) IN
        /\ ready' = ready \ {msg}
        /\ unacked' = [unacked EXCEPT ![w] = @ \cup {msg}]
        /\ ack_list' = [v \in Workers |-> Append(ack_list[v], msg)]
        /\ chunk' = [chunk EXCEPT ![w] = Append(@, msg)]
        /\ pc' = [pc EXCEPT ![w] =
                    IF ChunkFull(chunk'[w]) THEN "SUBMITTING" ELSE "STREAMING"]
    /\ UNCHANGED <<published, stale, acked, indexed, resp, pos, exc>>
    /\ UNCHANGED nonSinkVars

\* one turn of the loop of get_queue_stream that gets a message: the handle is
\* appended to ack_list, then the payload is yielded to streaming_bulk; the
\* request is sent as soon as the chunk is full
Pull(w) ==
    /\ pc[w] = "STREAMING"
    /\ ready # {}
    /\ LET msg == Oldest(ready) IN
        /\ ready' = ready \ {msg}
        /\ unacked' = [unacked EXCEPT ![w] = @ \cup {msg}]
        /\ ack_list' = [ack_list EXCEPT ![w] = AppendPending(@, msg)]
        /\ chunk' = [chunk EXCEPT ![w] = Append(@, msg)]
        /\ pc' = [pc EXCEPT ![w] =
                    IF ChunkFull(chunk'[w]) THEN "SUBMITTING" ELSE "STREAMING"]
    /\ UNCHANGED <<published, stale, acked, indexed, resp, pos, exc>>
    /\ UNCHANGED nonSinkVars

\* variant: no except clause, the exception ends the process
Caught_uncaught(kind) == [pc |-> "DEAD", exc |-> kind]

\* the state flush_to_es is in once its except clause has caught ex
Caught(kind) == [pc |-> "CONNECTING", exc |-> kind]

\* an exception that propagates through streaming_bulk ends that generator
\* (its chunk and its response are gone) and reaches the except clause
Unwind(w, kind) ==
    /\ pc' = [pc EXCEPT ![w] = Caught(kind).pc]
    /\ exc' = [exc EXCEPT ![w] = Caught(kind).exc]
    /\ chunk' = [chunk EXCEPT ![w] = <<>>]
    /\ resp' = [resp EXCEPT ![w] = <<>>]
    /\ pos' = [pos EXCEPT ![w] = 0]

\* an exception raised inside get_queue_stream leaves its with block, which
\* closes the connection: the broker requeues what was delivered on it
RaiseInStream(w, kind) ==
    /\ Unwind(w, kind)
    /\ ready' = ready \cup unacked[w]
    /\ unacked' = [unacked EXCEPT ![w] = {}]
    /\ UNCHANGED <<published, stale, acked, indexed>>

\* an exception raised outside the generator leaves the generator suspended
\* at its yield: its connection stays open until the generator is finalized
RaiseOutsideStream(w, kind, left) ==
    /\ Unwind(w, kind)
    /\ stale' = [stale EXCEPT ![w] = @ \cup left]
    /\ unacked' = [unacked EXCEPT ![w] = {}]
    /\ UNCHANGED <<published, ready, acked>>

\* simple_queue.get(block=True, timeout=bulk_timeout) with an empty queue:
\* Empty is raised and is not caught in get_queue_stream
Timeout(w) ==
    /\ pc[w] = "STREAMING"
    /\ ready = {}
    /\ RaiseInStream(w, "Empty")
    /\ UNCHANGED <<indexed, ack_list>>
    /\ UNCHANGED nonSinkVars

\* the broker connection fails during simple_queue.get
BrokerError(w) ==
    /\ pc[w] = "STREAMING"
    /\ RaiseInStream(w, "broker")
    /\ UNCHANGED <<indexed, ack_list>>
    /\ UNCHANGED nonSinkVars

\* client.bulk answers: one (ok, item) per document of the chunk, in order
BackendRespond(w) ==
    /\ pc[w] = "SUBMITTING"
    /\ \E oks \in [1..Len(chunk[w]) -> BOOLEAN] :
        /\ resp' = [resp EXCEPT ![w] =
                      [i \in 1..Len(chunk[w]) |->
                          [msg |-> chunk[w][i], ok |-> oks[i]]]]
        /\ indexed' = indexed \cup
                        {chunk[w][i] : i \in {j \in 1..Len(chunk[w]) : oks[j]}}
    /\ pos' = [pos EXCEPT ![w] = 0]
    /\ chunk' = [chunk EXCEPT ![w] = <<>>]
    /\ pc' = [pc EXCEPT ![w] = "ACK_OR_SKIP"]
    /\ UNCHANGED <<published, ready, unacked, stale, acked, ack_list,
                   exc>>
    /\ UNCHANGED nonSinkVars

\* client.bulk answers and the backend has indexed every document
BackendAccept(w) ==
    /\ pc[w] = "SUBMITTING"
    /\ resp' = [resp EXCEPT ![w] =
                  [i \in 1..Len(chunk[w]) |-> [msg |-> chunk[w][i], ok |-> TRUE]]]
    /\ indexed' = indexed \cup Range(chunk[w])
    /\ pos' = [pos EXCEPT ![w] = 0]
    /\ chunk' = [chunk EXCEPT ![w] = <<>>]
    /\ pc' = [pc EXCEPT ![w] = "ACK_OR_SKIP"]
    /\ UNCHANGED <<published, ready, unacked, stale, acked, ack_list,
                   exc>>
    /\ UNCHANGED nonSinkVars

\* client.bulk raises: the connection to the backend failed
BackendDrop(w) ==
    /\ pc[w] = "SUBMITTING"
    /\ RaiseOutsideStream(w, "backend", unacked[w])
    /\ UNCHANGED <<indexed, ack_list>>
    /\ UNCHANGED nonSinkVars

\* variant: msg = ack_list.pop()
OldestPending_last(l) == l[Len(l)]

\* variant: msg = ack_list[0], nothing is removed
PopPending_keep(l) == l

\* msg = ack_list.pop(0)
OldestPending(l) == Head(l)
PopPending(l) == Tail(l)

\* variant: msg.ack() whatever the result
ShouldAck_always(msg_ok) == TRUE

\* variant: if not msg_ok: msg.ack()
ShouldAck_negated(msg_ok) == ~msg_ok

\* if msg_ok: msg.ack()
ShouldAck(msg_ok) == msg_ok

\* body of the for loop of flush_to_es for one response
ProcessResult(w) ==
    /\ pc[w] = "ACK_OR_SKIP"
    /\ pos[w] < Len(resp[w])
    /\ LET msg == OldestPending(ack_list[w])
           msg_ok == resp[w][pos[w] + 1].ok
       IN
        /\ ack_list' = [ack_list EXCEPT ![w] = PopPending(@)]
        /\ pos' = [pos EXCEPT ![w] = @ + 1]
        /\ IF ShouldAck(msg_ok)
              THEN /\ acked' = acked \cup {msg}
                   /\ unacked' = [unacked EXCEPT ![w] = @ \ {msg}]
              ELSE UNCHANGED <<acked, unacked>>
        /\ pc' = [pc EXCEPT ![w] =
                    IF pos[w] + 1 = Len(resp[w]) THEN "STREAMING"
                                                 ELSE "ACK_OR_SKIP"]
    /\ UNCHANGED <<published, ready, stale, indexed, chunk, resp, exc>>
    /\ UNCHANGED nonSinkVars

\* msg.ack() raises: the broker connection failed after the pop
AckFail(w) ==
    /\ pc[w] = "ACK_OR_SKIP"
    /\ pos[w] < Len(resp[w])
    /\ resp[w][pos[w] + 1].ok
    /\ ack_list' = [ack_list EXCEPT ![w] = PopPending(@)]
    /\ RaiseOutsideStream(w, "broker", unacked[w])
    /\ UNCHANGED indexed
    /\ UNCHANGED nonSinkVars

\* an abandoned generator is finalized: its connection is closed and the
\* broker requeues what was delivered on it
ReleaseStream(w) ==
    /\ stale[w] # {}
    /\ pc[w] # "DEAD"
    /\ ready' = ready \cup stale[w]
    /\ stale' = [stale EXCEPT ![w] = {}]
    /\ UNCHANGED <<published, unacked, acked, indexed>>
    /\ UNCHANGED localVars
    /\ UNCHANGED nonSinkVars

\* the process is killed: all its connections close, nothing restarts it
Crash(w) ==
    /\ pc[w] \notin {"NOT_STARTED", "DEAD"}
    /\ pc' = [pc EXCEPT ![w] = "DEAD"]
    /\ ready' = ready \cup unacked[w] \cup stale[w]
    /\ unacked' = [unacked EXCEPT ![w] = {}]
    /\ stale' = [stale EXCEPT ![w] = {}]
    /\ ack_list' = [ack_list EXCEPT ![w] = <<>>]
    /\ chunk' = [chunk EXCEPT ![w] = <<>>]
    /\ resp' = [resp EXCEPT ![w] = <<>>]
    /\ pos' = [pos EXCEPT ![w] = 0]
    /\ exc' = [exc EXCEPT ![w] = "none"]
    /\ UNCHANGED <<published, acked, indexed>>
    /\ UNCHANGED nonSinkVars

\* one step of the process running flush_to_es, no fault involved
flush_to_es(w) ==
    \/ Connect(w)
    \/ Pull(w)
    \/ Timeout(w)
    \/ BackendRespond(w)
    \/ ProcessResult(w)

Fault(w) ==
    \/ BrokerError(w)
    \/ BackendDrop(w)
    \/ AckFail(w)

Next ==
    \/ put_message
    \/ start
    \/ \E w \in Workers : ProcessStart(w)
    \/ \E w \in Workers : flush_to_es(w)
    \/ \E w \in Workers : ReleaseStream(w)
    \/ \E w \in Workers : Fault(w)
    \/ \E w \in Workers : Crash(w)

Spec == Init /\ [][Next]_vars

\* runs in which no process is killed and the broker connection holds; each
\* process keeps taking its steps (a blocking get returns a message or times
\* out, a bulk request is answered) and every abandoned connection is
\* eventually closed.  The backend connection may fail at any time.
LiveNext ==
    \/ put_message
    \/ start
    \/ \E w \in Workers : ProcessStart(w)
    \/ \E w \in Workers : flush_to_es(w)
    \/ \E w \in Workers : ReleaseStream(w)
    \/ \E w \in Workers : BackendDrop(w)

\* runs with a backend that indexes every document, no connection failure
\* and no killed process; each process keeps taking its steps
AcceptNext ==
    \/ put_message
    \/ start
    \/ \E w \in Workers : ProcessStart(w)
    \/ \E w \in Workers : Connect(w)
    \/ \E w \in Workers : Pull(w)
    \/ \E w \in Workers : Timeout(w)
    \/ \E w \in Workers : BackendAccept(w)
    \/ \E w \in Workers : ProcessResult(w)

AcceptSpec ==
    /\ Init
    /\ [][AcceptNext]_vars
    /\ WF_vars(start /\ Created = {})
    /\ WF_vars(\E w \in Workers : ProcessStart(w))
    /\ \A w \in Workers :
          WF_vars(Connect(w) \/ Pull(w) \/ Timeout(w) \/ BackendAccept(w)
                    \/ ProcessResult(w))

\* the publisher in detail, next to processes that are not killed and see no
\* connection failure; the import may have failed
PubSpecInit == SinkInit /\ ApiInit /\ \E ok \in BOOLEAN : PubInit(ok)

PubNext ==
    \/ \E kind \in Kinds : delay(kind)
    \/ put_message_runs
    \/ put_message_fails
    \/ start
    \/ \E w \in Workers : ProcessStart(w)
    \/ \E w \in Workers : flush_to_es(w)

PubSpec == PubSpecInit /\ [][PubNext]_vars

\* the tenant API serving concurrent requests, on a table with or without a
\* unique index on tenant_id and a database layer that raises on a stale
\* delete or ignores it
TenantSpecInit ==
    SinkInit /\ PubInit(TRUE) /\ \E u, r \in BOOLEAN : TenantInit(u, r)

TenantNext ==
    \/ \E c \in Clients, t \in TenantIds : post_find(c, t)
    \/ \E c \in Clients : post_finish(c)
    \/ \E c \in Clients, t \in TenantIds : delete_find(c, t)
    \/ \E c \in Clients : delete_finish(c)

TenantSpec == TenantSpecInit /\ [][TenantNext]_vars

LiveSpec ==
    /\ Init
    /\ [][LiveNext]_vars
    /\ WF_vars(start /\ Created = {})
    /\ WF_vars(\E w \in Workers : ProcessStart(w))
    /\ \A w \in Workers : WF_vars(flush_to_es(w)) /\ WF_vars(ReleaseStream(w))

----------------------------------------------------------------------------
(* Properties *)

\* the places where the broker holds a message
OnChannel(m) ==
    m \in ready \/ \E w \in Workers : m \in unacked[w] \cup stale[w]

\* worker w consumes one result in this step and stays in the try body
Consumes(w) ==
    /\ pc[w] = "ACK_OR_SKIP"
    /\ pc'[w] \in {"ACK_OR_SKIP", "STREAMING"}
    /\ pos'[w] = pos[w] + 1

\* C1: for every result consumed, flush_to_es pops the oldest entry of
\* ack_list and acknowledges it exactly when the result's success flag is
\* true; nothing is acknowledged in any other step, and every acknowledged
\* message is one the backend reported as indexed.
C1_AckIffSuccess ==
    /\ [](acked \subseteq indexed)
    /\ [][ /\ \A w \in Workers : Consumes(w) =>
                LET r == resp[w][pos[w] + 1]
                    h == Head(ack_list[w])
                IN /\ ack_list'[w] = Tail(ack_list[w])
                   /\ r.ok => (h \notin acked /\ acked' = acked \cup {h})
                   /\ ~r.ok => acked' = acked
           /\ acked' # acked =>
                \E w \in Workers : Consumes(w) /\ resp[w][pos[w] + 1].ok
         ]_vars

C1_Witness ==
    \E w \in Workers :
        /\ pos[w] = 2
        /\ resp[w][1].ok /\ resp[w][1].msg \in acked
        /\ ~resp[w][2].ok /\ resp[w][2].msg \notin acked

\* C2: the handles in ack_list are, position by position, the messages whose
\* payloads streaming_bulk holds or whose results it has still to yield; a
\* pull appends the new handle at the end, and the message acknowledged for a
\* result is the message that result reports on.
C2_PositionalCorrespondence ==
    /\ [](\A w \in Workers :
            /\ pc[w] \in {"STREAMING", "SUBMITTING"} => ack_list[w] = chunk[w]
            /\ pc[w] = "ACK_OR_SKIP" =>
                /\ Len(ack_list[w]) = Len(resp[w]) - pos[w]
                /\ \A i \in 1..Len(ack_list[w]) :
                      ack_list[w][i] = resp[w][pos[w] + i].msg)
    /\ [][\A w \in Workers :
            /\ (pc[w] = "STREAMING" /\ unacked'[w] # unacked[w]
                  /\ pc'[w] \in {"STREAMING", "SUBMITTING"}) =>
                  \E m \in unacked'[w] \ unacked[w] :
                      ack_list'[w] = Append(ack_list[w], m)
            /\ Consumes(w) =>
                  acked' \ acked \subseteq {resp[w][pos[w] + 1].msg}
         ]_vars

\* a worker in the middle of a batch that it pulled against publish order
C2_Witness ==
    \E w \in Workers :
        /\ pc[w] = "ACK_OR_SKIP"
        /\ pos[w] = 1
        /\ resp[w][1].msg > resp[w][2].msg
        /\ resp[w][1].msg \in acked

\* C3: every published message is still held by the broker (ready, or
\* delivered and unacknowledged) or was acknowledged after the backend
\* reported it as indexed.
C3_NoSilentLoss ==
    \A m \in 1..published :
        \/ OnChannel(m) /\ m \notin acked
        \/ m \in acked /\ m \in indexed /\ ~OnChannel(m)

\* a process was killed while it held a delivery; the message is ready again
\* and another message has been acknowledged
C3_Witness ==
    /\ \E w \in Workers : pc[w] = "DEAD"
    /\ ready # {}
    /\ acked # {}
    /\ \E w \in Workers : unacked[w] # {}

\* the positions of resp[w] whose result is a failure
Rejected(w) == {i \in 1..Len(resp[w]) : ~resp[w][i].ok}

\* worker w has consumed every result of a full batch in which the backend
\* rejected exactly one document
OneRejectedBatchDone(w) ==
    /\ pc[w] = "STREAMING"
    /\ Len(resp[w]) = BULK_SIZE
    /\ pos[w] = Len(resp[w])
    /\ Cardinality(Rejected(w)) = 1

\* C4: after all results of a batch of BULK_SIZE documents with exactly one
\* rejected document are consumed, exactly the rejected document's message
\* is left unacknowledged on the channel and the others are acknowledged
\* and removed.
C4_PartialBatch ==
    \A w \in Workers : OneRejectedBatchDone(w) =>
        LET batch == {resp[w][i].msg : i \in 1..Len(resp[w])}
            rejected == {resp[w][i].msg : i \in Rejected(w)}
        IN /\ {m \in batch : OnChannel(m)} = rejected
           /\ batch \cap acked = batch \ rejected
           /\ rejected \subseteq unacked[w]

C4_Witness == \E w \in Workers : OneRejectedBatchDone(w)

\* C5 as claimed: a timeout of the pull never leaves get_queue_stream as an
\* exception, so flush_to_es never handles Empty.
C5_TimeoutStaysInStream == \A w \in Workers : exc[w] # "Empty"

\* C6: a pull that timed out does not end the worker: the worker running
\* flush_to_es is again blocked in a pull on the channel.
C6_TimeoutKeepsWorker ==
    \A w \in Workers :
        (exc[w] = "Empty") ~> (pc[w] = "STREAMING" /\ exc[w] = "none")

C6_Witness ==
    \E w \in Workers : pc[w] = "CONNECTING" /\ exc[w] = "Empty"

\* C7: every exception raised in the try body of flush_to_es takes the worker
\* to the top of its loop, never to an end, and the loop leaves the top with
\* an empty ack_list and a new stream.
C7_SelfHealing ==
    [][\A w \in Workers :
         /\ (exc[w] = "none" /\ exc'[w] # "none") => pc'[w] = "CONNECTING"
         /\ (pc[w] = "CONNECTING" /\ pc'[w] \notin {"CONNECTING", "DEAD"}) =>
               /\ pc'[w] = "STREAMING"
               /\ exc'[w] = "none"
               /\ ack_list'[w] = <<>>
               /\ chunk'[w] = <<>>
               /\ resp'[w] = <<>>
      ]_vars

\* a worker that caught a backend failure with handles still in ack_list
C7_Witness ==
    \E w \in Workers :
        pc[w] = "CONNECTING" /\ exc[w] = "backend" /\ ack_list[w] # <<>>

\* message m is in a chunk that is being submitted to the backend
Submitting(m) ==
    \E w \in Workers : pc[w] = "SUBMITTING" /\ m \in Range(chunk[w])

\* C8 as claimed: a message whose batch submission failed with a backend
\* connection error is pulled again and submitted to the backend again.
C8_ResubmittedAfterDrop ==
    \A m \in Msgs :
        (\E w \in Workers : /\ pc[w] = "CONNECTING"
                            /\ exc[w] = "backend"
                            /\ m \in Range(ack_list[w]))
            ~> Submitting(m)

\* C9 as claimed: a message popped without acknowledgment because its result
\* was a failure is submitted to the backend again in a later batch.
C9_FailedIsRetried ==
    \A m \in Msgs :
        (\E w \in Workers : \E i \in 1..pos[w] :
              resp[w][i].msg = m /\ ~resp[w][i].ok)
            ~> Submitting(m)

\* C10: ack_list never holds more than BULK_SIZE entries.
C10_BoundedAckList == \A w \in Workers : Len(ack_list[w]) <= BULK_SIZE

\* a full ack_list while the queue still holds a backlog
C10_Witness ==
    \E w \in Workers : Len(ack_list[w]) = BULK_SIZE /\ ready # {}

\* a run of put_message ends in this step
Attempt == task.state = "queued" /\ task' # task

\* C11 as claimed: a call of put_message with a malformed document is never
\* run again by the retry mechanism.
C11_MalformedNotRetried == task.kind # "ok" => task.retries = 0

\* C12: a run of put_message either enqueues exactly one message, or
\* enqueues none, leaves the channel as it was and hands the call to retry().
C12_PublishOutcome ==
    [][Attempt =>
         \/ /\ task'.state = "done"
            /\ published' = published + 1
            /\ ready' = ready \cup {published + 1}
            /\ Len(actions') = Len(actions) + 1
            /\ UNCHANGED <<unacked, stale, acked>>
         \/ /\ \/ task'.state = "queued" /\ task'.retries = task.retries + 1
               \/ task'.state = "failed" /\ task'.retries = task.retries
            /\ UNCHANGED <<published, ready, actions, unacked, stale, acked>>
      ]_vars

\* a call that failed once and then enqueued its message
C12_Witness ==
    task.state = "done" /\ task.retries > 0 /\ published > 0

\* C13: no two published actions share an _id, also when they carry the same
\* document and when attempts failed in between; a published action is never
\* changed, so a redelivered message is submitted with the _id it had.
C13_FreshActionIds ==
    /\ [](\A i, j \in 1..Len(actions) :
             i # j => actions[i]._id # actions[j]._id)
    /\ [][\A i \in 1..Len(actions) :
             Len(actions') >= i /\ actions'[i] = actions[i]]_vars

\* two actions with the same document, an id used up by a failed attempt,
\* and a worker that pulled a message again after a timeout
C13_Witness ==
    /\ Len(actions) >= 2
    /\ actions[1]._source = actions[2]._source
    /\ uuids > Len(actions)
    /\ \E w \in Workers : pc[w] = "SUBMITTING" /\ acked # {}

\* the variables a process running flush_to_es reads and writes, besides
\* the queue
LocalChanged(w) ==
    \/ pc'[w] # pc[w]
    \/ ack_list'[w] # ack_list[w]
    \/ chunk'[w] # chunk[w]
    \/ resp'[w] # resp[w]
    \/ pos'[w] # pos[w]
    \/ exc'[w] # exc[w]
    \/ unacked'[w] # unacked[w]
    \/ stale'[w] # stale[w]

InTryBody(w) == pc[w] \in {"STREAMING", "SUBMITTING", "ACK_OR_SKIP"}

\* C14: a delivery is held by at most one worker, the handles a worker
\* streams with are deliveries on its own connection, a message is acked by
\* the worker that holds its delivery, and a step of one running worker
\* changes nothing of another worker.
C14_ExclusiveOwnership ==
    /\ [](\A w, v \in Workers :
            /\ InTryBody(w) => Range(ack_list[w]) \subseteq unacked[w]
            /\ w # v => unacked[w] \cap unacked[v] = {}
            /\ (w # v /\ InTryBody(w) /\ InTryBody(v)) =>
                  Range(ack_list[w]) \cap Range(ack_list[v]) = {})
    /\ [][ /\ \A w \in Workers : Consumes(w) =>
                  acked' \ acked \subseteq unacked[w]
           /\ \A w, v \in Workers :
                 (w # v /\ LocalChanged(w)) => ~LocalChanged(v)
         ]_vars

\* two workers hold deliveries and stream with them
C14_Witness ==
    \E w, v \in Workers :
        /\ w # v
        /\ InTryBody(w) /\ ack_list[w] # <<>> /\ unacked[w] # {}
        /\ InTryBody(v) /\ ack_list[v] # <<>> /\ unacked[v] # {}

Live == {w \in Workers : pc[w] \notin {"NOT_STARTED", "DEAD"}}

\* start() has returned once: the processes of the first call all run or ended
Started == Cardinality(Created) >= NumWorkers

\* C16 as claimed: after start the number of live processes never
\* increases.
C16_LiveNeverIncreases ==
    [][Started =>
          {w \in Workers : pc'[w] \notin {"NOT_STARTED", "DEAD"}}
              \subseteq Live]_vars

\* C16: a call of start() takes cpu_count() processes to start and starts
\* them one by one; a process that ended is never started again, the set of
\* live processes grows only by the process a running call of start() starts
\* next, and the end of one process leaves the others as they are.
C16_NoSupervision ==
    [][ /\ (starting' > starting) =>
              starting = 0 /\ starting' = NumWorkers /\ pc' = pc
        /\ \A w \in Workers : pc[w] = "DEAD" => pc'[w] = "DEAD"
        /\ \A w \in Workers :
              (pc'[w] \notin {"NOT_STARTED", "DEAD"} /\ w \notin Live) =>
                  /\ pc[w] = "NOT_STARTED"
                  /\ pc'[w] = "CONNECTING"
                  /\ starting > 0
                  /\ starting' = starting - 1
                  /\ \A v \in Workers : v # w => pc'[v] = pc[v]
        /\ \A w, v \in Workers :
              (w # v /\ pc[w] # "DEAD" /\ pc'[w] = "DEAD") =>
                  pc'[v] = pc[v] /\ ack_list'[v] = ack_list[v]
      ]_vars

\* a process of the first call has ended, another one is acknowledging
\* results, and a second call of start() has added a process
C16_Witness ==
    /\ \E w \in Workers : pc[w] = "DEAD"
    /\ \E v \in Workers : pc[v] = "ACK_OR_SKIP" /\ pos[v] > 0
    /\ Cardinality(Created) > NumWorkers
    /\ Cardinality(Live) = NumWorkers

\* C15: when the declaration at import failed, the process still takes calls
\* of put_message, and every run of it fails and enqueues nothing.
C15_SoftDeclarationFailure ==
    /\ [](~declared =>
            /\ published = 0
            /\ ready = {}
            /\ actions = <<>>
            /\ task.state # "done")
    /\ [][(~declared /\ Attempt) =>
            task'.state \in {"queued", "failed"} /\ ~declared']_vars

\* after a failed declaration a second call was taken and has failed too
C15_Witness ==
    ~declared /\ calls >= 2 /\ task.state = "failed"

\* C18 as claimed: with fewer than BULK_SIZE messages left on the channel,
\* no further publish and a backend that accepts everything, each of these
\* messages is eventually acknowledged.
C18_PartialBatchDelivered ==
    \A m \in Msgs :
        (/\ calls = MaxMsgs
         /\ OnChannel(m)
         /\ Cardinality({n \in Msgs : OnChannel(n)}) < BULK_SIZE)
            ~> (m \in acked)

\* C19 as claimed: every on_post answers 400 (tenant_id exists, nothing
\* added) or 201 (one row added), and no two stored rows share a tenant_id.
C19_TenantIdUnique ==
    /\ \A i, j \in 1..Len(tenants) :
          i # j => tenants[i].tenant_id # tenants[j].tenant_id
    /\ \A c \in Clients :
          (req[c].op = "post" /\ req[c].phase = "done") =>
              req[c].status \in {"201", "400"}

\* a delete removes only the row its find_tenant returned: a row stored
\* after that by another request stays
TenantDeleteKeepsNewRows ==
    [][\A c \in Clients, i \in 1..Len(tenants) :
          (req[c].op = "delete" /\ req[c].phase = "found"
             /\ req'[c].phase = "done" /\ tenants[i].id # req[c].row) =>
              \E k \in 1..Len(tenants') : tenants'[k] = tenants[i]]_vars

====
